---- MODULE Spec2Model ----
(***************************************************************************)
(* Model of app.py (5haa/voicegen): the two voice handlers                  *)
(* (generate_voice, generate_voice_chunked) with the sentence chunking      *)
(* loop, and the text normalizer clean_text_for_tts.                        *)
(*                                                                          *)
(* A text is a sequence of one-character strings.  The regular expressions  *)
(* of the source are modelled by what Python's re module does with them:    *)
(* leftmost, non-overlapping matches, greedy or non-greedy as written.      *)
(***************************************************************************)
EXTENDS Integers, Sequences, FiniteSets, TLC

VARIABLES
    creds,      \* CLOUDFLARE_ACCOUNT_ID and CLOUDFLARE_API_TOKEN are both set
    data,       \* the request's JSON body (a record; fields may be missing)
    upstream,   \* what the TTS provider does with a call, if one is made
    pc,         \* "start", then "done" (handlers) or "once", "twice" (normalizer)
    handler,    \* the handler that served the request
    resp,       \* the HTTP response of the handler
    ttsLog,     \* the payloads posted to the TTS provider while serving
    sentences,  \* generate_voice_chunked's local: the split text
    chunks,     \* generate_voice_chunked's local: the grouped chunks
    x,          \* the normalizer's input
    out1,       \* clean_text_for_tts(x)
    out2        \* clean_text_for_tts(clean_text_for_tts(x))

vars == <<creds, data, upstream, pc, handler, resp, ttsLog, sentences, chunks,
          x, out1, out2>>

----------------------------------------------------------------------------
(* Bounds of the model and constants of the program *)

\* the number of pieces an enumerated chunker input is put together from
MaxPieces == 3
\* the number of tokens an enumerated normalizer input is put together from
MaxTokens == 3
\* the longest dot run of the dot-run inputs
MaxDots == 21
\* app.py:177, the chunk budget
ChunkLimit == 400
\* app.py:218, the length of the extra-long pause token
LongPause == 14
\* app.py:218, the shortest run that is an extra-long pause
LongRunMin == 9
\* app.py:219, the shortest and the longest run that is a regular ellipsis
EllipsisMin == 3
EllipsisMax == 8

----------------------------------------------------------------------------
(* Characters and small string helpers *)

NL == "\n"

\* Python's \s, over the characters of the model
Whitespace == {" ", NL}

IsSpace(c) == c \in Whitespace

\* [.!?] of the split and spacing patterns
SentenceEnd == {".", "!", "?"}

Min(S) == CHOOSE m \in S : \A o \in S : m <= o

\* n copies of the character c
Rep(c, n) == [i \in 1..n |-> c]

\* the last index of the run of characters of class C that starts at i
\* (i - 1 when t[i] is not in C): what a greedy C* consumes from i
RunEnd(t, i, C) ==
    CHOOSE j \in (i - 1)..Len(t) :
        /\ \A k \in i..j : t[k] \in C
        /\ (j = Len(t) \/ t[j + 1] \notin C)

\* str.strip()
Strip(s) ==
    IF \A i \in 1..Len(s) : IsSpace(s[i]) THEN <<>>
    ELSE LET a == CHOOSE i \in 1..Len(s) :
                      ~IsSpace(s[i]) /\ \A j \in 1..(i - 1) : IsSpace(s[j])
             b == CHOOSE i \in 1..Len(s) :
                      ~IsSpace(s[i]) /\ \A j \in (i + 1)..Len(s) : IsSpace(s[j])
         IN  SubSeq(s, a, b)

----------------------------------------------------------------------------
(* The chunking loop of generate_voice_chunked, app.py:170-184 *)

\* (?<=[.!?])\s+|(?<=\.\.\.)\s+ matches at i: whitespace behind a sentence end
\* or behind three dots
SplitMatchAt(t, i) ==
    /\ i >= 2 /\ i <= Len(t)
    /\ IsSpace(t[i])
    /\ \/ t[i - 1] \in SentenceEnd
       \/ (i >= 4 /\ t[i - 1] = "." /\ t[i - 2] = "." /\ t[i - 3] = ".")

\* re.split from position from, over the places M where the pattern matches:
\* the text between the matches, in order
RECURSIVE SplitFrom(_, _, _)
SplitFrom(t, M, from) ==
    LET S == {i \in M : i >= from}
    IN  IF S = {} THEN <<SubSeq(t, from, Len(t))>>
        ELSE LET i == Min(S)
                 e == RunEnd(t, i, Whitespace)
             IN  <<SubSeq(t, from, i - 1)>> \o SplitFrom(t, M, e + 1)

\* sentences = re.split(r'(?<=[.!?])\s+|(?<=\.\.\.)\s+', text)
SplitSentences(t) ==
    SplitFrom(t, {i \in 1..Len(t) : SplitMatchAt(t, i)}, 1)

\* one iteration of the for loop: acc is [chunks, current_chunk]
ChunkStepNoCurrent(acc, sentence) ==
    IF Len(sentence) < ChunkLimit
    THEN [acc EXCEPT !.current = @ \o sentence \o <<" ">>]
    ELSE [chunks  |-> IF Len(acc.current) > 0
                      THEN Append(acc.chunks, Strip(acc.current))
                      ELSE acc.chunks,
          current |-> sentence \o <<" ">>]

ChunkStepNoFlush(acc, sentence) ==
    IF Len(acc.current) + Len(sentence) < ChunkLimit
    THEN [acc EXCEPT !.current = @ \o sentence \o <<" ">>]
    ELSE [chunks  |-> acc.chunks,
          current |-> sentence \o <<" ">>]

ChunkStep(acc, sentence) ==
    IF Len(acc.current) + Len(sentence) < ChunkLimit
    THEN [acc EXCEPT !.current = @ \o sentence \o <<" ">>]
    ELSE [chunks  |-> IF Len(acc.current) > 0
                      THEN Append(acc.chunks, Strip(acc.current))
                      ELSE acc.chunks,
          current |-> sentence \o <<" ">>]

RECURSIVE ChunkFold(_, _, _)
ChunkFold(acc, ss, k) ==
    IF k > Len(ss) THEN acc ELSE ChunkFold(ChunkStep(acc, ss[k]), ss, k + 1)

\* the loop and the flush of what is left after it
ChunkLoop(ss) ==
    LET acc == ChunkFold([chunks |-> <<>>, current |-> <<>>], ss, 1)
    IN  IF Len(acc.current) > 0
        THEN Append(acc.chunks, Strip(acc.current))
        ELSE acc.chunks

----------------------------------------------------------------------------
(* clean_text_for_tts, app.py:197-232 *)

Upper ==
    {"A", "B", "C", "D", "E", "F", "G", "H", "I", "J", "K", "L", "M",
     "N", "O", "P", "Q", "R", "S", "T", "U", "V", "W", "X", "Y", "Z"}

Digits == {"0", "1", "2", "3", "4", "5", "6", "7", "8", "9"}

\* the character ` of app.py:202
Backtick == "backtick"

\* [-*•] of app.py:205 ("•" is written "bullet" here)
Bullets == {"-", "*", "bullet"}

BlocklistNoStar ==
    {"#", "@", "$", "%", "^", "&", "_", "+", "=", "[", "]", "{", "}",
     "|", "\\", "<", ">", "~"}

\* [#@$%^&*_+=\[\]{}|\\<>~] of app.py:226
Blocklist ==
    {"#", "@", "$", "%", "^", "&", "*", "_", "+", "=", "[", "]", "{", "}",
     "|", "\\", "<", ">", "~"}

\* the marker m stands at i
HasAt(t, i, m) ==
    /\ i >= 1 /\ i + Len(m) - 1 <= Len(t)
    /\ \A k \in 1..Len(m) : t[i + k - 1] = m[k]

\* m(.+?)m at i: the places the closing marker can stand ('.' is no newline)
Closers(t, i, m) ==
    IF ~HasAt(t, i, m) THEN {}
    ELSE {j \in (i + Len(m) + 1)..Len(t) :
             /\ HasAt(t, j, m)
             /\ \A k \in (i + Len(m))..(j - 1) : t[k] # NL}

\* m(.+?)m at i: the last index of the match, 0 when there is none
DelimEnd(t, i, m) ==
    IF Closers(t, i, m) = {} THEN 0 ELSE Min(Closers(t, i, m)) + Len(m) - 1

\* ^ with re.MULTILINE
LineStart(t, i) == i = 1 \/ t[i - 1] = NL

\* ^\s*[-*•]\s+ at i
BulletEnd(t, i) ==
    LET k == RunEnd(t, i, Whitespace) + 1
    IN  IF /\ LineStart(t, i)
           /\ k + 1 <= Len(t)
           /\ t[k] \in Bullets
           /\ IsSpace(t[k + 1])
        THEN RunEnd(t, k + 1, Whitespace)
        ELSE 0

\* ^\s*\d+\.\s+ at i
OrdinalEnd(t, i) ==
    LET k == RunEnd(t, i, Whitespace) + 1
        d == RunEnd(t, k, Digits)
    IN  IF /\ LineStart(t, i)
           /\ d >= k
           /\ d + 2 <= Len(t)
           /\ t[d + 1] = "."
           /\ IsSpace(t[d + 2])
        THEN RunEnd(t, d + 2, Whitespace)
        ELSE 0

\* c{lo,} at i, and c{lo,hi} when hi > 0: greedy
RunMatchEnd(t, i, C, lo, hi) ==
    LET n == RunEnd(t, i, C) - i + 1
    IN  IF n < lo THEN 0
        ELSE IF hi > 0 /\ n > hi THEN i + hi - 1
        ELSE i + n - 1

\* \s+\. at i
SpaceDotEnd(t, i) ==
    LET r == RunEnd(t, i, Whitespace)
    IN  IF r >= i /\ r + 1 <= Len(t) /\ t[r + 1] = "." THEN r + 1 ELSE 0

\* the last index of pattern p's match at i, 0 when it does not match there
MatchEnd(p, t, i) ==
    CASE p = "bold"       -> DelimEnd(t, i, <<"*", "*">>)
      [] p = "italic"     -> DelimEnd(t, i, <<"*">>)
      [] p = "code"       -> DelimEnd(t, i, <<Backtick>>)
      [] p = "bullet"     -> BulletEnd(t, i)
      [] p = "ordinal"    -> OrdinalEnd(t, i)
      [] p = "spaces"     -> RunMatchEnd(t, i, Whitespace, 1, 0)
      [] p = "spacing"    -> IF /\ t[i] \in SentenceEnd
                                /\ i + 1 <= Len(t)
                                /\ t[i + 1] \in Upper
                             THEN i + 1 ELSE 0
      [] p = "longdots"   -> RunMatchEnd(t, i, {"."}, LongRunMin, 0)
      [] p = "ellipsis"   -> RunMatchEnd(t, i, {"."}, EllipsisMin, EllipsisMax)
      [] p = "exclaim"    -> RunMatchEnd(t, i, {"!"}, 2, 0)
      [] p = "question"   -> RunMatchEnd(t, i, {"?"}, 2, 0)
      [] p = "symbols"    -> IF t[i] \in Blocklist THEN i ELSE 0
      [] p = "spacedot"   -> SpaceDotEnd(t, i)
      [] p = "multispace" -> RunMatchEnd(t, i, Whitespace, 2, 0)

\* what re.sub puts in place of pattern p's match t[i..e]
Replacement(p, t, i, e) ==
    CASE p = "bold"       -> SubSeq(t, i + 2, e - 2)
      [] p = "italic"     -> SubSeq(t, i + 1, e - 1)
      [] p = "code"       -> SubSeq(t, i + 1, e - 1)
      [] p = "bullet"     -> <<>>
      [] p = "ordinal"    -> <<>>
      [] p = "spaces"     -> <<" ">>
      [] p = "spacing"    -> <<t[i], " ", t[e]>>
      [] p = "longdots"   -> Rep(".", LongPause)
      [] p = "ellipsis"   -> <<".", ".", ".">>
      [] p = "exclaim"    -> <<"!">>
      [] p = "question"   -> <<"?">>
      [] p = "symbols"    -> <<>>
      [] p = "spacedot"   -> <<".">>
      [] p = "multispace" -> <<" ">>

\* re.sub from position from: the leftmost match is replaced, and the search
\* goes on behind it
RECURSIVE SubFrom(_, _, _)
SubFrom(p, t, from) ==
    LET S == {i \in from..Len(t) : MatchEnd(p, t, i) # 0}
    IN  IF S = {} THEN SubSeq(t, from, Len(t))
        ELSE LET i == Min(S)
                 e == MatchEnd(p, t, i)
             IN  SubSeq(t, from, i - 1) \o Replacement(p, t, i, e)
                     \o SubFrom(p, t, e + 1)

ReSub(p, t) == SubFrom(p, t, 1)

\* the substitutions of clean_text_for_tts, in the order of the source
Pipeline ==
    <<"bold", "italic", "code", "bullet", "ordinal", "spaces", "spacing",
      "longdots", "ellipsis", "exclaim", "question", "symbols", "spacedot",
      "multispace">>

RECURSIVE ApplyFrom(_, _, _)
ApplyFrom(ps, t, k) ==
    IF k > Len(ps) THEN t ELSE ApplyFrom(ps, ReSub(ps[k], t), k + 1)

clean_text_for_tts(text) == Strip(ApplyFrom(Pipeline, text, 1))

----------------------------------------------------------------------------
(* generate_voice, app.py:43-125 *)

\* data.get(key, default)
Get(d, key, default) == IF key \in DOMAIN d THEN d[key] ELSE default

\* lang_map.get(language, 'en')
LangMap(language) ==
    CASE language = "EN" -> "en"
      [] language = "ES" -> "es"
      [] language = "FR" -> "fr"
      [] language = "ZH" -> "zh"
      [] language = "JP" -> "ja"
      [] language = "KR" -> "ko"
      [] OTHER -> "en"

JsonError(message, status) ==
    [status |-> status, kind |-> "json", error |-> message]

\* the try block: the response to what the provider did with the one call
UpstreamResponse(up) ==
    CASE up.kind = "timeout" ->
            JsonError("Request timed out. Please try again.", 504)
      [] up.kind = "neterr" ->
            JsonError("Network error", 500)
      [] up.kind = "http" /\ up.status = 200 ->
            CASE up.body = "audio"    -> [status |-> 200, kind |-> "audio"]
              [] up.body \in {"noaudio", "errors"} ->
                    JsonError("Invalid response format from API", 500)
              \* response.json() or b64decode raises: one of the two
              \* except clauses answers, both with 500
              [] OTHER                -> JsonError("Server error", 500)
      [] OTHER ->
            JsonError(IF up.body = "errors" THEN "upstream message"
                      ELSE <<"Cloudflare API Error", up.status>>,
                      up.status)

GenerateVoiceNoTextCheck(cr, d, up) ==
    IF ~cr
    THEN [resp |-> JsonError("Cloudflare credentials not configured. Please check your .env file.", 500),
          calls |-> <<>>]
    ELSE [resp  |-> UpstreamResponse(up),
          calls |-> <<[prompt |-> Get(d, "text", <<>>),
                       lang   |-> LangMap(Get(d, "language", "EN"))]>>]

\* the response and the calls made to the provider
GenerateVoiceResult(cr, d, up) ==
    IF ~cr
    THEN [resp |-> JsonError("Cloudflare credentials not configured. Please check your .env file.", 500),
          calls |-> <<>>]
    ELSE IF Len(Get(d, "text", <<>>)) = 0
    THEN [resp |-> JsonError("Text is required", 400), calls |-> <<>>]
    ELSE [resp  |-> UpstreamResponse(up),
          calls |-> <<[prompt |-> Get(d, "text", <<>>),
                       lang   |-> LangMap(Get(d, "language", "EN"))]>>]

----------------------------------------------------------------------------
(* generate_voice_chunked, app.py:152-194 *)

GenerateVoiceChunkedAlwaysChunks(cr, d, up) ==
    IF ~cr
    THEN [resp |-> JsonError("Cloudflare credentials not configured.", 500),
          calls |-> <<>>, sentences |-> <<>>, chunks |-> <<>>]
    ELSE IF Len(Get(d, "text", <<>>)) = 0
    THEN [resp |-> JsonError("Text is required", 400),
          calls |-> <<>>, sentences |-> <<>>, chunks |-> <<>>]
    ELSE LET ss == SplitSentences(Get(d, "text", <<>>))
             cs == ChunkLoop(ss)
         IN  [resp  |-> [status |-> 200, kind |-> "json",
                         chunks |-> cs, total |-> Len(cs)],
              calls |-> <<>>, sentences |-> ss, chunks |-> cs]

GenerateVoiceChunkedResult(cr, d, up) ==
    IF ~cr
    THEN [resp |-> JsonError("Cloudflare credentials not configured.", 500),
          calls |-> <<>>, sentences |-> <<>>, chunks |-> <<>>]
    ELSE IF Len(Get(d, "text", <<>>)) = 0
    THEN [resp |-> JsonError("Text is required", 400),
          calls |-> <<>>, sentences |-> <<>>, chunks |-> <<>>]
    ELSE LET ss == SplitSentences(Get(d, "text", <<>>))
             cs == ChunkLoop(ss)
         IN  IF Len(cs) <= 1
             THEN LET r == GenerateVoiceResult(cr, d, up)
                  IN  [resp |-> r.resp, calls |-> r.calls,
                       sentences |-> ss, chunks |-> cs]
             ELSE [resp  |-> [status |-> 200, kind |-> "json",
                              chunks |-> cs, total |-> Len(cs)],
                   calls |-> <<>>, sentences |-> ss, chunks |-> cs]

----------------------------------------------------------------------------
(* The requests the handlers are checked on *)

Word(n) == Rep("a", n)

\* sentences of 1, 4, 199, 200 and 401 characters; the first ends no sentence
Pieces ==
    { <<"a">>,
      <<"a", ".", ".", ".">>,
      Word(198) \o <<"!">>,
      Word(199) \o <<"?">>,
      Word(400) \o <<".">> }

\* nothing (the next piece runs on), or a run of two whitespace characters
Separators == { <<>>, <<" ", NL>> }

Units == { p \o s : p \in Pieces, s \in Separators }

RECURSIVE Concat(_, _)
Concat(us, k) == IF k > Len(us) THEN <<>> ELSE us[k] \o Concat(us, k + 1)

\* every text of at most MaxPieces pieces, each followed by a separator
ChunkTexts ==
    UNION { { Concat(us, 1) : us \in [1..n -> Units] } : n \in 0..MaxPieces }

\* texts with markup, whitespace runs and whitespace at the ends
SpecialTexts ==
    { <<" ">>,
      <<" ", "a", ".", " ", NL, " ", "a", "!", " ">>,
      <<"#">> \o Word(197) \o <<".", " ">> \o Word(199) \o <<".">>,
      <<"*", "*">> \o Word(198) \o <<"!", "*", "*", " ">> \o Word(199) \o <<"?">>,
      Word(400) \o <<".", " ", "a", "!", "!">>,
      Word(399) \o <<".", NL>> }

\* request bodies of the error paths: text missing, empty, short
SmallRequests ==
    { [language |-> "EN"],
      [text |-> <<>>],
      [text |-> <<>>, language |-> "JP"],
      [text |-> <<"H", "i", ".">>],
      [text |-> <<"H", "i", ".">>, language |-> "JP"],
      [text |-> <<"H", "i", ".">>, language |-> "XX"] }

UpstreamStatuses == {200, 201, 400, 429, 500}

UpstreamBodies == {"audio", "noaudio", "badjson", "badaudio", "errors"}

\* what requests.post can do: time out, fail, or answer
Upstreams ==
    { [kind |-> "timeout"], [kind |-> "neterr"] }
    \cup { [kind |-> "http", status |-> s, body |-> b] :
              s \in UpstreamStatuses, b \in UpstreamBodies }

UpstreamOk == [kind |-> "http", status |-> 200, body |-> "audio"]

NoResp == [status |-> 0, kind |-> "none"]

Init ==
    /\ \/ /\ creds = TRUE
          /\ data \in { [text |-> t] : t \in ChunkTexts \cup SpecialTexts }
          /\ upstream = UpstreamOk
       \/ /\ creds \in BOOLEAN
          /\ data \in SmallRequests
          /\ upstream \in Upstreams
    /\ pc = "start"
    /\ handler = "none"
    /\ resp = NoResp
    /\ ttsLog = <<>>
    /\ sentences = <<>>
    /\ chunks = <<>>
    /\ x = <<>> /\ out1 = <<>> /\ out2 = <<>>

\* POST /api/generate-voice
GenerateVoice ==
    /\ pc = "start"
    /\ \E r \in {GenerateVoiceResult(creds, data, upstream)} :
           /\ resp' = r.resp
           /\ ttsLog' = r.calls
    /\ pc' = "done"
    /\ handler' = "generate_voice"
    /\ UNCHANGED <<creds, data, upstream, sentences, chunks, x, out1, out2>>

\* POST /api/generate-voice-chunked
GenerateVoiceChunked ==
    /\ pc = "start"
    /\ \E r \in {GenerateVoiceChunkedResult(creds, data, upstream)} :
           /\ resp' = r.resp
           /\ ttsLog' = r.calls
           /\ sentences' = r.sentences
           /\ chunks' = r.chunks
    /\ pc' = "done"
    /\ handler' = "generate_voice_chunked"
    /\ UNCHANGED <<creds, data, upstream, x, out1, out2>>

Next == GenerateVoice \/ GenerateVoiceChunked

Spec == Init /\ [][Next]_vars

----------------------------------------------------------------------------
(* The texts the normalizer is checked on *)

Tokens ==
    { <<"*", "*">>, <<"*">>, <<Backtick>>, <<"-", " ">>, <<"1", ".", " ">>,
      <<".">>, Rep(".", 10), <<" ">>, <<NL>>,
      <<"a">>, <<"A">>, <<"!">>, <<"#">> }

\* every text of at most MaxTokens tokens
TokenTexts ==
    UNION { { Concat(ts, 1) : ts \in [1..n -> Tokens] } : n \in 0..MaxTokens }

DotPrefixes ==
    { <<>>, <<"a">>,
      <<"*", "*", "H", "i", "*", "*", " ", "t", "h", "e", "r", "e">> }

DotSuffixes == { <<>>, <<"g", "o">>, <<" ", "b">> }

\* a text around one run of 0..MaxDots dots
DotTexts ==
    { pre \o Rep(".", n) \o suf :
          pre \in DotPrefixes, n \in 0..MaxDots, suf \in DotSuffixes }

NormStart(inputs) ==
    /\ x \in inputs
    /\ pc = "start"
    /\ out1 = <<>> /\ out2 = <<>>
    /\ creds = FALSE
    /\ data = [text |-> <<>>]
    /\ upstream = UpstreamOk
    /\ handler = "none"
    /\ resp = NoResp
    /\ ttsLog = <<>>
    /\ sentences = <<>>
    /\ chunks = <<>>

InitNorm == NormStart(TokenTexts)

InitDots == NormStart(DotTexts)

\* text = clean_text_for_tts(text)
Clean ==
    /\ pc = "start"
    /\ out1' = clean_text_for_tts(x)
    /\ pc' = "once"
    /\ UNCHANGED <<creds, data, upstream, handler, resp, ttsLog, sentences,
                   chunks, x, out2>>

\* the cleaned text is cleaned again
CleanAgain ==
    /\ pc = "once"
    /\ out2' = clean_text_for_tts(out1)
    /\ pc' = "twice"
    /\ UNCHANGED <<creds, data, upstream, handler, resp, ttsLog, sentences,
                   chunks, x, out1>>

NextNorm == Clean \/ CleanAgain

SpecNorm == InitNorm /\ [][NextNorm]_vars

SpecDots == InitDots /\ [][NextNorm]_vars

----------------------------------------------------------------------------
(* Properties *)

\* the request's text, as both handlers read it: data.get('text', '')
ReqText == Get(data, "text", <<>>)

\* the chunking loop ran: generate_voice_chunked got past its two checks
LoopRan ==
    /\ pc = "done" /\ handler = "generate_voice_chunked"
    /\ creds /\ Len(ReqText) > 0

\* ' '.join(cs)
RECURSIVE JoinFrom(_, _)
JoinFrom(cs, k) ==
    IF k > Len(cs) THEN <<>>
    ELSE IF k = Len(cs) THEN cs[k]
    ELSE cs[k] \o <<" ">> \o JoinFrom(cs, k + 1)

IsNonSpace(c) == ~IsSpace(c)

\* the non-whitespace characters of t, in order
NonWs(t) == SelectSeq(t, IsNonSpace)

\* the lengths of the maximal dot runs of t
DotRunLens(t) ==
    { RunEnd(t, i, {"."}) - i + 1 :
          i \in {k \in 1..Len(t) : t[k] = "." /\ (k = 1 \/ t[k - 1] # ".")} }

\* C1: a maximal run of n dots of the input becomes exactly 14 dots when
\* 9 <= n <= 20, exactly 3 dots when 3 <= n <= 8, and stays as it is when n is
\* 1 or 2; "**Hi** there" + 10 dots + "go" gives "Hi there" + 14 dots + "go".
\* (The inputs of SpecDots hold at most one dot run.)
C1_DotRunCaps ==
    pc # "start" =>
        /\ \A n \in DotRunLens(x) :
               /\ (n >= 9 /\ n <= 20) => DotRunLens(out1) = {14}
               /\ (n >= 3 /\ n <= 8) => DotRunLens(out1) = {3}
               /\ (n >= 1 /\ n <= 2) => DotRunLens(out1) = {n}
        /\ x = <<"*", "*", "H", "i", "*", "*", " ", "t", "h", "e", "r", "e">>
                   \o Rep(".", 10) \o <<"g", "o">>
           => out1 = <<"H", "i", " ", "t", "h", "e", "r", "e">>
                         \o Rep(".", 14) \o <<"g", "o">>

\* C2: every chunk is at most 400 characters long, unless it is one sentence
\* that is itself longer than 400; and every such sentence is a chunk of its
\* own, whole (trimmed), merged with no neighbour.
C2_ChunkBudget ==
    LoopRan =>
        /\ \A j \in 1..Len(chunks) :
               \/ Len(chunks[j]) <= ChunkLimit
               \/ \E i \in 1..Len(sentences) :
                      /\ Len(sentences[i]) > ChunkLimit
                      /\ chunks[j] = Strip(sentences[i])
        /\ \A i \in 1..Len(sentences) :
               Len(sentences[i]) > ChunkLimit
                   => \E j \in 1..Len(chunks) : chunks[j] = Strip(sentences[i])

\* C2's case: an oversized sentence is a chunk, next to a chunk that groups
\* several sentences
C2_Witness ==
    /\ LoopRan
    /\ \E j \in 1..Len(chunks) : Len(chunks[j]) > ChunkLimit
    /\ \E j \in 1..Len(chunks) :
           /\ Len(chunks[j]) > ChunkLimit \div 2
           /\ \A i \in 1..Len(sentences) : chunks[j] # Strip(sentences[i])

\* C3: the chunks joined by single spaces, trimmed, hold the non-whitespace
\* characters of the trimmed input, in the same order.
C3_ChunksKeepText ==
    LoopRan => NonWs(Strip(JoinFrom(chunks, 1))) = NonWs(Strip(ReqText))

\* C3's case: several chunks, whose join differs from the input in whitespace
C3_Witness ==
    /\ LoopRan
    /\ Len(chunks) >= 2
    /\ Strip(JoinFrom(chunks, 1)) # Strip(ReqText)

\* C4: the normalizer is idempotent: cleaning the cleaned text changes nothing.
C4_Idempotent == pc = "twice" => out2 = out1

\* C5: the normalizer's output holds no blocklisted symbol character.
C5_NoBlocklisted ==
    pc # "start" =>
        \A i \in 1..Len(out1) :
            out1[i] \notin {"#", "@", "$", "%", "^", "&", "*", "_", "+", "=",
                            "[", "]", "{", "}", "|", "\\", "<", ">", "~"}

\* C5's case: the input held such characters, and something is left of it
C5_Witness ==
    /\ pc = "once"
    /\ \E i \in 1..Len(x) : x[i] = "*"
    /\ \E i \in 1..Len(x) : x[i] = "#"
    /\ Len(out1) > 0

\* C6: the normalizer's output holds no two adjacent '!', no two adjacent '?'
\* and no run of more than 14 dots.
C6_PunctuationCaps ==
    pc # "start" =>
        /\ \A i \in 1..(Len(out1) - 1) :
               /\ ~(out1[i] = "!" /\ out1[i + 1] = "!")
               /\ ~(out1[i] = "?" /\ out1[i + 1] = "?")
        /\ \A n \in DotRunLens(out1) : n <= 14

\* the response C7 describes, for the chunks cs
C7_Response(cs) ==
    IF Len(cs) <= 1
    THEN /\ resp = GenerateVoiceResult(creds, data, upstream).resp
         /\ ttsLog = GenerateVoiceResult(creds, data, upstream).calls
    ELSE /\ ttsLog = <<>>
         /\ resp = [status |-> 200, kind |-> "json",
                    chunks |-> cs, total |-> Len(cs)]
         /\ resp.total >= 2

\* C7 as claimed: the handler chunks the normalized text.
C7_ChunksOfNormalized ==
    LoopRan => C7_Response(ChunkLoop(SplitSentences(clean_text_for_tts(ReqText))))

\* C7, amended: the handler chunks the request's text as it came, without
\* normalizing it; with at most one chunk the response is generate-voice's for
\* the same request, otherwise no TTS call is made and the response is
\* {chunks, total} with the chunks in order and total their number (>= 2).
C7_ChunksOfRaw ==
    LoopRan => C7_Response(ChunkLoop(SplitSentences(ReqText)))

\* C7's case: a text the normalizer would change is answered with its chunks
C7_Witness ==
    /\ LoopRan
    /\ resp.kind = "json" /\ resp.status = 200 /\ resp.total >= 2
    /\ clean_text_for_tts(ReqText) # ReqText

\* C8 as claimed: a missing or empty text is answered 400 "Text is required"
\* without a TTS call, with or without credentials.
C8_EmptyTextAlways400 ==
    (pc = "done" /\ Len(ReqText) = 0) =>
        /\ resp = [status |-> 400, kind |-> "json", error |-> "Text is required"]
        /\ ttsLog = <<>>

\* C8, amended: with credentials configured, a missing or empty text is
\* answered 400 "Text is required"; without them the answer is the 500 of the
\* credentials check, which comes first; no TTS call is made either way.
C8_EmptyText ==
    (pc = "done" /\ Len(ReqText) = 0) =>
        /\ ttsLog = <<>>
        /\ resp.kind = "json"
        /\ creds =>
               resp = [status |-> 400, kind |-> "json",
                       error |-> "Text is required"]
        /\ ~creds => resp.status = 500

\* C8's case: the text field is missing, credentials are set, the answer is 400
C8_Witness ==
    /\ pc = "done" /\ creds
    /\ "text" \notin DOMAIN data
    /\ resp.status = 400

\* C9: generate-voice calls the provider once and answers: 200 with audio ->
\* audio; timeout -> 504; a non-2xx status -> that status; 200 without a
\* usable audio payload or any other exception -> 500; every answer that is
\* not audio is JSON with an error, and none has a success status with an
\* error body.
C9_OutcomeMapping ==
    (/\ pc = "done" /\ handler = "generate_voice"
     /\ creds /\ Len(ReqText) > 0) =>
        /\ Len(ttsLog) = 1
        /\ (upstream.kind = "http" /\ upstream.status = 200
                /\ upstream.body = "audio")
               => resp = [status |-> 200, kind |-> "audio"]
        /\ upstream.kind = "timeout" => resp.status = 504
        /\ (upstream.kind = "http"
                /\ (upstream.status < 200 \/ upstream.status > 299))
               => resp.status = upstream.status
        /\ (upstream.kind = "neterr"
                \/ (upstream.kind = "http" /\ upstream.status = 200
                        /\ upstream.body # "audio"))
               => resp.status = 500
        /\ resp.kind # "audio" => (resp.kind = "json" /\ "error" \in DOMAIN resp)
        /\ ~("error" \in DOMAIN resp /\ resp.status >= 200 /\ resp.status <= 299)

\* C10: the chunking loop emits no chunk that is the empty string (and so none
\* for a text with nothing in it).
C10_NoEmptyChunk ==
    LoopRan => \A j \in 1..Len(chunks) : Len(chunks[j]) > 0

====
